---- MODULE Spec2Model ----
(***************************************************************************)
(* A model of the JSON formatter / validator component                     *)
(* (src/unnamed/part_000, src/json-formatter.tsx).                         *)
(*                                                                         *)
(* A JavaScript string is modelled as a sequence of characters, each       *)
(* character being a one-element TLA+ string ("a", "{", ...).  A few       *)
(* characters that TLA+ strings cannot hold are named: "NBSP" is U+00A0.   *)
(* Indices are 0-based as in the source; CharAt(s, i) reads s[i].          *)
(***************************************************************************)
EXTENDS Integers, Sequences, FiniteSets, TLC

VARIABLES
    \* ---- position resolver (getLineColumnFromPosition) ----
    text,           \* argument text
    position,       \* argument position
    calc,           \* <<the returned {line, column}>>, or <<>> before the call
    \* ---- scanner (highlightJson) ----
    jsonString,     \* argument of highlightJson
    i,              \* the read index of the main loop
    tokens,         \* the tokens pushed so far
    \* ---- JsonFormatter (the component's state) ----
    jsonInput,      \* useState(''): the input text
    formattedJson,  \* useState(''): the output text
    isValid,        \* useState(null): "true", "false" or "null"
    errorInfo,      \* useState(null): <<the JsonError>>, or <<>> for null
    readers,        \* the contents of the files whose FileReader has not loaded yet
    toast,          \* the title of the last toast raised, "none" before any
    engine,         \* the wording of the JavaScript engine's SyntaxError
    lastParse,      \* <<the argument of the latest JSON.parse call>>, or <<>>
    latest,         \* the text of the user action initiated last
    ignored,        \* the handler whose latest call found its guard false, or "none"
    \* ---- autoFixJson ----
    repairInput,    \* argument of autoFixJson
    repairOutcome,  \* <<what jsonrepair did>>, or <<>> before the call
    fixed,          \* <<what autoFixJson did>>, or <<>> before the call
    \* ---- parseJsonError and the display of its result ----
    rawMessage,     \* the raw message of the error
    shownOver,      \* the text the error is shown over
    descriptor,     \* <<the JsonError returned>>, or <<>> before the call
    display         \* <<what is shown>>, or <<>> before the render

vars == <<text, position, calc, jsonString, i, tokens,
          jsonInput, formattedJson, isValid, errorInfo, readers, toast, engine,
          lastParse, latest, ignored, repairInput, repairOutcome, fixed,
          rawMessage, shownOver, descriptor, display>>

\* each group of variables, and its value while another part is exercised
ResolveIdle == text = <<>> /\ position = 0 /\ calc = <<>>
ScanIdle == jsonString = <<>> /\ i = 0 /\ tokens = <<>>
RepairIdle == repairInput = <<>> /\ repairOutcome = <<>> /\ fixed = <<>>
ErrorIdle == rawMessage = <<>> /\ shownOver = <<>> /\ descriptor = <<>> /\ display = <<>>
ComponentIdle ==
    /\ jsonInput = <<>>
    /\ formattedJson = <<>>
    /\ isValid = "null"
    /\ errorInfo = <<>>
    /\ readers = <<>>
    /\ toast = "none"
    /\ engine = "position"
    /\ lastParse = <<>>
    /\ latest = <<>>
    /\ ignored = "none"

resolveVars == <<text, position, calc>>
scanVars == <<jsonString, i, tokens>>
repairVars == <<repairInput, repairOutcome, fixed>>
errorVars == <<rawMessage, shownOver, descriptor, display>>
componentVars ==
    <<jsonInput, formattedJson, isValid, errorInfo, readers, toast, engine, lastParse,
      latest, ignored>>

\* ------------------------------------------------------------------ bounds

MaxTextLen == 4
MaxBeyond == 2
MaxScanLen == 4
MaxReads == 1

\* -------------------------------------------------------------- characters

QUOTE == "\""
BSL == "\\"
NL == "\n"

Min(a, b) == IF a < b THEN a ELSE b
Max(a, b) == IF a > b THEN a ELSE b

\* s[i] with a 0-based index; "undefined" beyond the end, as in JavaScript
CharAt(s, k) == IF k >= 0 /\ k < Len(s) THEN s[k + 1] ELSE "undefined"

\* every sequence over alphabet A of length 0..n
SeqsUpTo(A, n) == UNION {[1..k -> A] : k \in 0..n}

\* ------------------------------------------------- String.prototype methods

\* String.prototype.substring(start, end): both arguments are clamped to
\* 0..length and swapped when start > end
substring_clampShort(s, start, end) ==
    LET a == Min(Max(start, 0), Len(s))
        b == Min(Max(end, 0), Max(Len(s) - 1, 0))
    IN  SubSeq(s, Min(a, b) + 1, Max(a, b))

substring(s, start, end) ==
    LET a == Min(Max(start, 0), Len(s))
        b == Min(Max(end, 0), Len(s))
    IN  SubSeq(s, Min(a, b) + 1, Max(a, b))

\* String.prototype.split(sep) for a one-character separator: the pieces
\* between the separators; the empty string splits into one empty piece
RECURSIVE SplitFrom(_, _, _, _)
SplitFrom(s, sep, k, cur) ==
    IF k > Len(s) THEN <<cur>>
    ELSE IF s[k] = sep THEN <<cur>> \o SplitFrom(s, sep, k + 1, <<>>)
    ELSE SplitFrom(s, sep, k + 1, Append(cur, s[k]))

split(s, sep) == SplitFrom(s, sep, 1, <<>>)

\* ------------------------------------------ getLineColumnFromPosition

getLineColumnFromPosition_noPlusOne(t, p) ==
    LET lines == split(substring(t, 0, p), NL)
    IN  [line |-> Len(lines), column |-> Len(lines[Len(lines)])]

getLineColumnFromPosition(t, p) ==
    LET lines == split(substring(t, 0, p), NL)
    IN  [line |-> Len(lines), column |-> Len(lines[Len(lines)]) + 1]

\* the text of the resolver examples: a, newline, b, c, newline, d
ExampleText == <<"a", NL, "b", "c", NL, "d">>

ResolveTexts == SeqsUpTo({"a", NL}, MaxTextLen) \cup {ExampleText}

ResolveInit ==
    /\ text \in ResolveTexts
    /\ position \in 0..(Len(text) + MaxBeyond)
    /\ calc = <<>>
    /\ ScanIdle /\ ComponentIdle /\ RepairIdle /\ ErrorIdle

Resolve ==
    /\ calc = <<>>
    /\ calc' = <<getLineColumnFromPosition(text, position)>>
    /\ UNCHANGED <<text, position, scanVars, componentVars, repairVars, errorVars>>

ResolveNext == Resolve

SpecResolve == ResolveInit /\ [][ResolveNext]_vars

\* ---- reference definitions of the resolver's contract (section 4.3)

\* number of newline characters in t[0:offset)
NewlinesBefore(t, offset) == Cardinality({k \in 1..offset : t[k] = NL})

\* 0-based indices of the newline characters in t[0:offset)
NewlineIndicesBefore(t, offset) == {k - 1 : k \in {n \in 1..offset : t[n] = NL}}

MaxOf(S) == CHOOSE m \in S : \A n \in S : n <= m

RefLineColumn(t, offset) ==
    [line |-> 1 + NewlinesBefore(t, offset),
     column |-> IF NewlineIndicesBefore(t, offset) = {}
                THEN offset + 1
                ELSE offset - MaxOf(NewlineIndicesBefore(t, offset))]

\* C9: for 0 <= offset <= length(text) the resolver returns
\* line = 1 + (number of newlines in text[0:offset)) and
\* column = offset - (index of the last newline before offset), or offset + 1
\* when there is none; both are 1-based, the column is 1 right after a
\* newline, and for "a\nbc\nd" offset 0 gives (1,1) and offset 2 gives (2,1).
C9_PositionResolver ==
    (calc # <<>> /\ position <= Len(text)) =>
        /\ calc[1] = RefLineColumn(text, position)
        /\ calc[1].line >= 1
        /\ calc[1].column >= 1
        /\ (position > 0 /\ text[position] = NL) => calc[1].column = 1
        /\ (text = ExampleText /\ position = 0) =>
               calc[1] = [line |-> 1, column |-> 1]
        /\ (text = ExampleText /\ position = 2) =>
               calc[1] = [line |-> 2, column |-> 1]

C9_Witness ==
    /\ text = ExampleText
    /\ position = 2
    /\ calc = <<[line |-> 2, column |-> 1]>>

\* C10 as stated: for a non-empty text and offset >= length(text) the
\* resolver returns the position of the last character (offset = length - 1),
\* and offset 6 of "a\nbc\nd" resolves to line 3, column 1.
C10_ClampToLastCharacter ==
    (calc # <<>> /\ text # <<>> /\ position >= Len(text)) =>
        /\ calc[1] = RefLineColumn(text, Len(text) - 1)
        /\ (text = ExampleText /\ position = 6) =>
               calc[1] = [line |-> 3, column |-> 1]

\* C10 amended: for a non-empty text and offset >= length(text) the resolver
\* returns the same as for offset = length(text), the position just past the
\* last character; offset 6 (and beyond) of "a\nbc\nd" resolves to line 3,
\* column 2.
C10_ClampToEndOfText ==
    (calc # <<>> /\ text # <<>> /\ position >= Len(text)) =>
        /\ calc[1] = RefLineColumn(text, Len(text))
        /\ (text = ExampleText) => calc[1] = [line |-> 3, column |-> 2]

C10_Witness ==
    /\ text = ExampleText
    /\ position > Len(text)
    /\ calc = <<[line |-> 3, column |-> 2]>>

\* ------------------------------------------------------------ highlightJson

\* the characters the regular expressions of the scanner match
RegexSpace == {" ", "\t", NL, "\r", "\f", "VT", "NBSP", "BOM"}      \* /\s/
Digits == {"0", "1", "2", "3", "4", "5", "6", "7", "8", "9"}        \* \d
NumberStart == {"-"} \cup Digits                                    \* /[-\d]/
NumberChar == {"-", ".", "e", "E", "+"} \cup Digits                 \* /[-\d.eE+]/
Punctuation == {"{", "}", "[", "]", ",", ":"}                       \* /[{}[\],:]/

\* String.prototype.substr(start, length)
substr(s, start, length) == SubSeq(s, start + 1, Min(start + length, Len(s)))

\* (StringLoop leaving the closing quote out of the token)
RECURSIVE StringLoop_dropsClosingQuote(_, _, _, _)
StringLoop_dropsClosingQuote(s, k, isEscaped, str) ==
    IF ~(k < Len(s)) THEN [i |-> k, str |-> str]
    ELSE LET nextChar == CharAt(s, k)
         IN  IF nextChar = QUOTE /\ ~isEscaped
             THEN [i |-> k + 1, str |-> str]
             ELSE StringLoop_dropsClosingQuote(s, k + 1, nextChar = BSL /\ ~isEscaped,
                                               Append(str, nextChar))

\* (StringLoop closing at the first quote, escaped or not)
RECURSIVE StringLoop_ignoresEscape(_, _, _, _)
StringLoop_ignoresEscape(s, k, isEscaped, str) ==
    IF ~(k < Len(s)) THEN [i |-> k, str |-> str]
    ELSE LET nextChar == CharAt(s, k)
         IN  IF nextChar = QUOTE
             THEN [i |-> k + 1, str |-> Append(str, nextChar)]
             ELSE StringLoop_ignoresEscape(s, k + 1, nextChar = BSL /\ ~isEscaped,
                                           Append(str, nextChar))

\* the inner loop of the string rule: appends characters to str until an
\* unescaped quote has been appended or the input ends
RECURSIVE StringLoop(_, _, _, _)
StringLoop(s, k, isEscaped, str) ==
    IF ~(k < Len(s)) THEN [i |-> k, str |-> str]
    ELSE LET nextChar == CharAt(s, k)
         IN  IF nextChar = QUOTE /\ ~isEscaped
             THEN [i |-> k + 1, str |-> Append(str, nextChar)]
             ELSE StringLoop(s, k + 1, nextChar = BSL /\ ~isEscaped,
                             Append(str, nextChar))

\* (the lookahead of the string rule looking at the very next character only)
SkipSpace_noSkip(s, j) == j

\* the lookahead of the string rule: the index of the next non-space character
RECURSIVE SkipSpace(_, _)
SkipSpace(s, j) ==
    IF j < Len(s) /\ CharAt(s, j) \in RegexSpace THEN SkipSpace(s, j + 1) ELSE j

\* the loop of the number rule
RECURSIVE NumberLoop(_, _, _)
NumberLoop(s, k, num) ==
    IF k < Len(s) /\ CharAt(s, k) \in NumberChar
    THEN NumberLoop(s, k + 1, Append(num, CharAt(s, k)))
    ELSE [i |-> k, num |-> num]

Tok(type, value, next) == [type |-> type, value |-> value, next |-> next]

\* one iteration of the main loop at read index k: the token pushed and the
\* read index after it
ScanOne(s, k) ==
    LET char == CharAt(s, k)
    IN  IF char \in RegexSpace THEN Tok("whitespace", <<char>>, k + 1)
        ELSE IF char = QUOTE THEN
            LET r == StringLoop(s, k + 1, FALSE, <<QUOTE>>)
                isKey == CharAt(s, SkipSpace(s, r.i)) = ":"
            IN  Tok(IF isKey THEN "key" ELSE "string", r.str, r.i)
        ELSE IF char \in NumberStart THEN
            LET r == NumberLoop(s, k, <<>>)
            IN  Tok("number", r.num, r.i)
        ELSE IF char = "t" /\ substr(s, k, 4) = <<"t", "r", "u", "e">>
            THEN Tok("boolean", <<"t", "r", "u", "e">>, k + 4)
        ELSE IF char = "f" /\ substr(s, k, 5) = <<"f", "a", "l", "s", "e">>
            THEN Tok("boolean", <<"f", "a", "l", "s", "e">>, k + 5)
        ELSE IF char = "n" /\ substr(s, k, 4) = <<"n", "u", "l", "l">>
            THEN Tok("null", <<"n", "u", "l", "l">>, k + 4)
        ELSE IF char \in Punctuation THEN Tok("punctuation", <<char>>, k + 1)
        ELSE Tok("default", <<char>>, k + 1)

\* highlightJson as a whole: the token list of s
RECURSIVE HighlightFrom(_, _, _)
HighlightFrom(s, k, toks) ==
    IF ~(k < Len(s)) THEN toks
    ELSE LET t == ScanOne(s, k)
         IN  HighlightFrom(s, t.next, Append(toks, [type |-> t.type, value |-> t.value]))

highlightJson(s) == HighlightFrom(s, 0, <<>>)

ScanAlphabet == {QUOTE, BSL, ":", " ", "1", "t", "{", "x"}

\* longer inputs that exercise the literals, numbers, keys and escapes
ScanExtraTexts ==
    { <<"t", "r", "u", "e">>,
      <<"f", "a", "l", "s", "e">>,
      <<"n", "u", "l", "l">>,
      <<"t", "r", "u", "E">>,
      <<"n", "u", "l">>,
      <<"[", "t", "r", "u", "e", ",", "n", "u", "l", "l", "]">>,
      <<"-", "1", ".", "5", "e", "+", "3", ",", "1", "-", "-", "e">>,
      <<"{", QUOTE, "a", QUOTE, " ", NL, ":", " ", "1", "}">>,
      <<QUOTE, "a", BSL, QUOTE, "b", QUOTE, ":", QUOTE, BSL, BSL, QUOTE, "x">>,
      <<"[", QUOTE, "a", QUOTE, ",", QUOTE, "b">>,
      <<"NBSP", "x", "\t", "f", "a", "l", "s">>,
      <<QUOTE, BSL, BSL, BSL, QUOTE, QUOTE, ":", QUOTE, BSL, QUOTE>> }

ScanTexts == SeqsUpTo(ScanAlphabet, MaxScanLen) \cup ScanExtraTexts

ScanInit ==
    /\ jsonString \in ScanTexts
    /\ i = 0
    /\ tokens = <<>>
    /\ ResolveIdle /\ ComponentIdle /\ RepairIdle /\ ErrorIdle

\* (HighlightStep with the whitespace rule forgetting its i++)
HighlightStep_whitespaceStuck ==
    /\ i < Len(jsonString)
    /\ LET t == ScanOne(jsonString, i)
       IN  /\ tokens' = Append(tokens, [type |-> t.type, value |-> t.value])
           /\ i' = IF t.type = "whitespace" THEN i ELSE t.next
    /\ UNCHANGED <<jsonString, resolveVars, componentVars, repairVars, errorVars>>

\* one iteration of the while loop of highlightJson
HighlightStep ==
    /\ i < Len(jsonString)
    /\ LET t == ScanOne(jsonString, i)
       IN  /\ tokens' = Append(tokens, [type |-> t.type, value |-> t.value])
           /\ i' = t.next
    /\ UNCHANGED <<jsonString, resolveVars, componentVars, repairVars, errorVars>>

ScanNext == HighlightStep

SpecScan == ScanInit /\ [][ScanNext]_vars

\* concatenation of the value fields of a token list, in order
RECURSIVE ConcatValues(_)
ConcatValues(toks) ==
    IF toks = <<>> THEN <<>> ELSE Head(toks).value \o ConcatValues(Tail(toks))

ScanDone == ~(i < Len(jsonString))

\* C3: lossless scan: when highlightJson returns, the concatenation of the
\* token values, in order, is exactly the input string (and at every point of
\* the loop it is the part of the input read so far).
C3_LosslessScan ==
    /\ ConcatValues(tokens) = substring(jsonString, 0, i)
    /\ ScanDone => ConcatValues(tokens) = jsonString

\* an unterminated string and an unrecognized character were scanned
C3_Witness ==
    /\ ScanDone
    /\ jsonString = <<"x", QUOTE, BSL, QUOTE>>
    /\ Len(tokens) = 2
    /\ tokens[2].type = "string"
    /\ ConcatValues(tokens) = jsonString

\* whether one of the rules before the default case matches at index k
SomeRuleMatches(s, k) ==
    \/ CharAt(s, k) \in RegexSpace \cup {QUOTE} \cup NumberStart \cup Punctuation
    \/ substr(s, k, 4) \in {<<"t", "r", "u", "e">>, <<"n", "u", "l", "l">>}
    \/ substr(s, k, 5) = <<"f", "a", "l", "s", "e">>

\* C4: the scanner is total and terminates: every iteration of the main loop
\* pushes exactly one token with non-empty text and strictly advances the read
\* index (never past the end), so at most length(s) tokens are produced and the
\* loop is never stuck before the end; a character matched by no rule becomes
\* a 'default' token of length exactly 1.
C4_ScannerTotal ==
    /\ [](/\ i <= Len(jsonString)
          /\ Len(tokens) <= i
          /\ (ScanDone \/ ENABLED HighlightStep)
          /\ \A n \in 1..Len(tokens) :
                /\ Len(tokens[n].value) >= 1
                /\ tokens[n].type = "default" => Len(tokens[n].value) = 1)
    /\ [][/\ Len(tokens') = Len(tokens) + 1
          /\ SubSeq(tokens', 1, Len(tokens)) = tokens
          /\ i' > i
          /\ i' - i = Len(tokens'[Len(tokens')].value)
          /\ (~SomeRuleMatches(jsonString, i)) =>
                tokens'[Len(tokens')] = [type |-> "default", value |-> <<CharAt(jsonString, i)>>]
         ]_vars

\* a scan that met unrecognized characters has finished
C4_Witness ==
    /\ ScanDone
    /\ jsonString = <<"x", " ", "t", "x">>
    /\ Len(tokens) = 4
    /\ tokens[1] = [type |-> "default", value |-> <<"x">>]
    /\ tokens[3] = [type |-> "default", value |-> <<"t">>]

\* ------------------------------------------------------------------ JSON.parse
\* The strict parser is the JavaScript engine's JSON.parse (ECMA-262 25.5.1).
\* A parsed value is a record [t |-> type, v |-> payload]:
\*   null     v = <<>>            boolean  v = <<"true">> or <<"false">>
\*   number   v = <<the Number>>  string   v = its characters
\*   array    v = its elements    object   v = its properties [k, val], in the
\*                                         order JavaScript enumerates them

JsonWhitespace == {" ", "\t", NL, "\r"}

\* characters that may not appear unescaped in a JSON string (below U+0020)
ControlChars == {"\t", NL, "\r", "\f", "BS", "VT", "NUL"}

DigitValue(c) ==
    CASE c = "0" -> 0 [] c = "1" -> 1 [] c = "2" -> 2 [] c = "3" -> 3
      [] c = "4" -> 4 [] c = "5" -> 5 [] c = "6" -> 6 [] c = "7" -> 7
      [] c = "8" -> 8 [] c = "9" -> 9

DigitChar(d) ==
    CASE d = 0 -> "0" [] d = 1 -> "1" [] d = 2 -> "2" [] d = 3 -> "3"
      [] d = 4 -> "4" [] d = 5 -> "5" [] d = 6 -> "6" [] d = 7 -> "7"
      [] d = 8 -> "8" [] d = 9 -> "9"

\* ---- Numbers: an IEEE double, modelled by its shortest decimal form:
\* kind "zero" (neg keeps the sign of -0), "inf", or "finite" with the
\* significant digits dig (no leading or trailing zero) and the exponent n
\* such that the value is 0.dig * 10^n.  The model is exact for literals of at
\* most 15 significant digits outside the subnormal range.

Num(kind, neg, dig, n) == [kind |-> kind, neg |-> neg, dig |-> dig, n |-> n]

\* the digits of 2^1024 - 2^970, the least magnitude that rounds to Infinity
OverflowDigits == <<1, 7, 9, 7, 6, 9, 3, 1, 3, 4, 8, 6, 2, 3, 1, 5, 8>>

RECURSIVE StripLeadingZeros(_)
StripLeadingZeros(d) ==
    IF d # <<>> /\ Head(d) = 0 THEN StripLeadingZeros(Tail(d)) ELSE d

RECURSIVE StripTrailingZeros(_)
StripTrailingZeros(d) ==
    IF d # <<>> /\ d[Len(d)] = 0
    THEN StripTrailingZeros(SubSeq(d, 1, Len(d) - 1)) ELSE d

\* a >= b for digit sequences read as decimal fractions 0.a and 0.b
RECURSIVE FractionGEq(_, _)
FractionGEq(a, b) ==
    IF b = <<>> THEN TRUE
    ELSE IF a = <<>> THEN StripLeadingZeros(b) = <<>>
    ELSE IF Head(a) # Head(b) THEN Head(a) > Head(b)
    ELSE FractionGEq(Tail(a), Tail(b))

\* the Number denoted by a literal with integer digits int, fraction digits
\* frac and exponent ex (StringToNumber, rounding to the nearest double)
MakeNumber(neg, int, frac, ex) ==
    LET all == int \o frac
        sig == StripLeadingZeros(all)
        dig == StripTrailingZeros(sig)
        n == Len(int) - (Len(all) - Len(sig)) + ex
    IN  IF dig = <<>> THEN Num("zero", neg, <<>>, 0)
        ELSE IF n - 1 > 308 \/ (n - 1 = 308 /\ FractionGEq(dig, OverflowDigits))
            THEN Num("inf", neg, <<>>, 0)
        ELSE IF n - 1 < -324 THEN Num("zero", neg, <<>>, 0)
        ELSE Num("finite", neg, dig, n)

\* ---- parse results

NullValue == [t |-> "null", v |-> <<>>]

Ok(v, next) == [ok |-> TRUE, v |-> v, next |-> next]
Fail(pos) == [ok |-> FALSE, v |-> NullValue, next |-> pos]

RECURSIVE SkipJsonWhitespace(_, _)
SkipJsonWhitespace(s, k) ==
    IF CharAt(s, k) \in JsonWhitespace THEN SkipJsonWhitespace(s, k + 1) ELSE k

\* the digits from index k on: [d |-> their values, i |-> the index after them]
RECURSIVE ReadDigits(_, _, _)
ReadDigits(s, k, acc) ==
    IF CharAt(s, k) \in Digits
    THEN ReadDigits(s, k + 1, Append(acc, DigitValue(CharAt(s, k))))
    ELSE [d |-> acc, i |-> k]

RECURSIVE DigitsToInt(_)
DigitsToInt(d) ==
    IF d = <<>> THEN 0 ELSE 10 * DigitsToInt(SubSeq(d, 1, Len(d) - 1)) + d[Len(d)]

\* JSONNumber: -? (0 | [1-9][0-9]*) (. [0-9]+)? ([eE] [+-]? [0-9]+)?
\* read in three steps, each handing what it read to the next
NumberDone(neg, int, frac, exp, expNeg) ==
    Ok([t |-> "number",
        v |-> <<MakeNumber(neg, int.d, frac.d,
                           IF expNeg THEN 0 - DigitsToInt(exp.d) ELSE DigitsToInt(exp.d))>>],
       exp.i)

NumberExponent(s, neg, int, frac, exp, expNeg) ==
    IF exp.d = <<>> THEN Fail(exp.i) ELSE NumberDone(neg, int, frac, exp, expNeg)

NumberAfterFraction(s, neg, int, frac) ==
    IF CharAt(s, frac.i) \in {"e", "E"}
    THEN IF CharAt(s, frac.i + 1) \in {"+", "-"}
         THEN NumberExponent(s, neg, int, frac, ReadDigits(s, frac.i + 2, <<>>),
                             CharAt(s, frac.i + 1) = "-")
         ELSE NumberExponent(s, neg, int, frac, ReadDigits(s, frac.i + 1, <<>>), FALSE)
    ELSE NumberDone(neg, int, frac, [d |-> <<>>, i |-> frac.i], FALSE)

NumberFraction(s, neg, int, frac) ==
    IF frac.d = <<>> THEN Fail(frac.i) ELSE NumberAfterFraction(s, neg, int, frac)

NumberAfterInteger(s, k1, neg, int) ==
    IF int.d = <<>> THEN Fail(k1)
    ELSE IF CharAt(s, int.i) = "."
         THEN NumberFraction(s, neg, int, ReadDigits(s, int.i + 1, <<>>))
         ELSE NumberAfterFraction(s, neg, int, [d |-> <<>>, i |-> int.i])

NumberInteger(s, k1, neg) ==
    IF CharAt(s, k1) = "0"
    THEN NumberAfterInteger(s, k1, neg, [d |-> <<0>>, i |-> k1 + 1])
    ELSE NumberAfterInteger(s, k1, neg, ReadDigits(s, k1, <<>>))

ParseNumber(s, k) ==
    IF CharAt(s, k) = "-" THEN NumberInteger(s, k + 1, TRUE) ELSE NumberInteger(s, k, FALSE)

\* the character a single-character escape denotes
EscapeValue(c) ==
    CASE c = QUOTE -> QUOTE [] c = BSL -> BSL [] c = "/" -> "/"
      [] c = "b" -> "BS" [] c = "f" -> "\f" [] c = "n" -> NL
      [] c = "r" -> "\r" [] c = "t" -> "\t"

HexDigits == Digits \cup {"a", "b", "c", "d", "e", "f", "A", "B", "C", "D", "E", "F"}

\* the character of a \uXXXX escape; the code points the model does not name
\* are one character "U+"
UnicodeValue(h) ==
    IF h = <<"0", "0", "6", "1">> THEN "a"
    ELSE IF h \in {<<"0", "0", "0", "a">>, <<"0", "0", "0", "A">>} THEN NL
    ELSE IF h = <<"0", "0", "2", "2">> THEN QUOTE
    ELSE IF h = <<"0", "0", "0", "0">> THEN "NUL"
    ELSE "U+"

\* the characters of a string literal after its opening quote
RECURSIVE ParseString(_, _, _)
ParseString(s, k, acc) ==
    LET c == CharAt(s, k)
    IN  IF ~(k < Len(s)) THEN Fail(k)
        ELSE IF c = QUOTE THEN Ok([t |-> "string", v |-> acc], k + 1)
        ELSE IF c \in ControlChars THEN Fail(k)
        ELSE IF c = BSL THEN
            LET e == CharAt(s, k + 1)
            IN  IF e \in {QUOTE, BSL, "/", "b", "f", "n", "r", "t"}
                THEN ParseString(s, k + 2, Append(acc, EscapeValue(e)))
                ELSE IF e = "u" THEN
                    LET bad == {m \in 0..3 : CharAt(s, k + 2 + m) \notin HexDigits}
                    IN  IF bad # {} THEN Fail(k + 2 + (CHOOSE m \in bad : \A x \in bad : m <= x))
                        ELSE ParseString(s, k + 6,
                                 Append(acc, UnicodeValue(SubSeq(s, k + 3, k + 6))))
                ELSE Fail(k + 1)
        ELSE ParseString(s, k + 1, Append(acc, c))

\* a literal name (true, false, null) at index k
ParseLiteral(s, k, name, value) ==
    LET bad == {m \in 1..Len(name) : CharAt(s, k + m - 1) # name[m]}
    IN  IF bad = {} THEN Ok(value, k + Len(name))
        ELSE Fail(k + (CHOOSE m \in bad : \A x \in bad : m <= x) - 1)

\* The syntax tree of a JSON text: as a parsed value, but an object holds its
\* members in text order, repeated names included.
RECURSIVE ParseValue(_, _)
RECURSIVE ParseElements(_, _, _)
RECURSIVE ParseMembers(_, _, _)

\* a value is expected at index k (white space skipped)
ValueAt(s, k) ==
    IF ~(k < Len(s)) THEN Fail(k)
    ELSE IF CharAt(s, k) = "{" THEN ParseMembers(s, k + 1, <<>>)
    ELSE IF CharAt(s, k) = "[" THEN ParseElements(s, k + 1, <<>>)
    ELSE IF CharAt(s, k) = QUOTE THEN ParseString(s, k + 1, <<>>)
    ELSE IF CharAt(s, k) \in NumberStart THEN ParseNumber(s, k)
    ELSE IF CharAt(s, k) = "t"
        THEN ParseLiteral(s, k, <<"t", "r", "u", "e">>, [t |-> "boolean", v |-> <<"true">>])
    ELSE IF CharAt(s, k) = "f"
        THEN ParseLiteral(s, k, <<"f", "a", "l", "s", "e">>, [t |-> "boolean", v |-> <<"false">>])
    ELSE IF CharAt(s, k) = "n"
        THEN ParseLiteral(s, k, <<"n", "u", "l", "l">>, NullValue)
    ELSE Fail(k)

ParseValue(s, k0) == ValueAt(s, SkipJsonWhitespace(s, k0))

\* after an element e of an array: a comma and more, or the closing bracket
ElementsAfterValue(s, elements, k1) ==
    IF CharAt(s, k1) = "," THEN ParseElements(s, k1 + 1, elements)
    ELSE IF CharAt(s, k1) = "]" THEN Ok([t |-> "array", v |-> elements], k1 + 1)
    ELSE Fail(k1)

ElementsValue(s, acc, e) ==
    IF ~e.ok THEN e
    ELSE ElementsAfterValue(s, Append(acc, e.v), SkipJsonWhitespace(s, e.next))

ElementsAt(s, k, acc) ==
    IF acc = <<>> /\ CharAt(s, k) = "]" THEN Ok([t |-> "array", v |-> <<>>], k + 1)
    ELSE ElementsValue(s, acc, ValueAt(s, k))

\* the elements of an array from index k0 on, acc being those read so far
ParseElements(s, k0, acc) == ElementsAt(s, SkipJsonWhitespace(s, k0), acc)

\* after a member of an object: a comma and more, or the closing brace
MembersAfterValue(s, members, k2) ==
    IF CharAt(s, k2) = "," THEN ParseMembers(s, k2 + 1, members)
    ELSE IF CharAt(s, k2) = "}" THEN Ok([t |-> "object", v |-> members], k2 + 1)
    ELSE Fail(k2)

MembersValue(s, acc, name, val) ==
    IF ~val.ok THEN val
    ELSE MembersAfterValue(s, Append(acc, [k |-> name.v.v, val |-> val.v]),
                           SkipJsonWhitespace(s, val.next))

MembersColon(s, acc, name, k1) ==
    IF CharAt(s, k1) = ":" THEN MembersValue(s, acc, name, ParseValue(s, k1 + 1))
    ELSE Fail(k1)

MembersName(s, acc, name) ==
    IF ~name.ok THEN name
    ELSE MembersColon(s, acc, name, SkipJsonWhitespace(s, name.next))

MembersAt(s, k, acc) ==
    IF acc = <<>> /\ CharAt(s, k) = "}" THEN Ok([t |-> "object", v |-> <<>>], k + 1)
    ELSE IF CharAt(s, k) = QUOTE THEN MembersName(s, acc, ParseString(s, k + 1, <<>>))
    ELSE Fail(k)

\* the members of an object from index k0 on, acc being those read so far
ParseMembers(s, k0, acc) == MembersAt(s, SkipJsonWhitespace(s, k0), acc)

\* after the value of a whole text only white space may follow
TextEnd(s, r, k) == IF k < Len(s) THEN Fail(k) ELSE r

TextValue(s, r) == IF ~r.ok THEN r ELSE TextEnd(s, r, SkipJsonWhitespace(s, r.next))

\* the syntax tree of a whole text: one value between optional white space
ParseText(s) == TextValue(s, ParseValue(s, 0))

\* ---- property order of an ordinary object (OrdinaryOwnPropertyKeys): array
\* indices in ascending numeric order, then the other names in creation order

\* a canonical numeric string below 2^32 - 1
IsArrayIndex(key) ==
    /\ key # <<>>
    /\ \A m \in 1..Len(key) : key[m] \in Digits
    /\ Len(key) = 1 \/ key[1] # "0"
    /\ \/ Len(key) < 10
       \/ /\ Len(key) = 10
          /\ ~FractionGEq([m \in 1..10 |-> DigitValue(key[m])],
                          <<4, 2, 9, 4, 9, 6, 7, 2, 9, 5>>)

\* a < b for two array indices
IndexLess(a, b) ==
    \/ Len(a) < Len(b)
    \/ /\ Len(a) = Len(b)
       /\ a # b
       /\ FractionGEq([m \in 1..Len(b) |-> DigitValue(b[m])],
                      [m \in 1..Len(a) |-> DigitValue(a[m])])

\* CreateDataProperty(obj, key, val) on the property list props
CreateDataProperty(props, key, val) ==
    IF \E m \in 1..Len(props) : props[m].k = key
    THEN [m \in 1..Len(props) |->
             IF props[m].k = key THEN [k |-> key, val |-> val] ELSE props[m]]
    ELSE IF IsArrayIndex(key) THEN
        LET before == {m \in 1..Len(props) :
                          IsArrayIndex(props[m].k) /\ IndexLess(props[m].k, key)}
            at == Cardinality(before)
        IN  SubSeq(props, 1, at) \o <<[k |-> key, val |-> val]>>
                \o SubSeq(props, at + 1, Len(props))
    ELSE Append(props, [k |-> key, val |-> val])

\* InternalizeJSONProperty without a reviver: the JavaScript value of a
\* syntax tree
RECURSIVE Internalize(_)
RECURSIVE InternalizeMembers(_, _)

Internalize(tree) ==
    IF tree.t = "array"
    THEN [t |-> "array", v |-> [m \in 1..Len(tree.v) |-> Internalize(tree.v[m])]]
    ELSE IF tree.t = "object"
    THEN [t |-> "object", v |-> InternalizeMembers(tree.v, <<>>)]
    ELSE tree

InternalizeMembers(members, props) ==
    IF members = <<>> THEN props
    ELSE InternalizeMembers(Tail(members),
             CreateDataProperty(props, Head(members).k, Internalize(Head(members).val)))

\* JSON.parse(s): [ok |-> TRUE, v |-> the value] or, when a SyntaxError is
\* thrown, [ok |-> FALSE, next |-> the offset of the offending character]
InternalizeResult(r) == IF r.ok THEN Ok(Internalize(r.v), r.next) ELSE r

JSONparse(s) == InternalizeResult(ParseText(s))

\* -------------------------------------------------------------- JSON.stringify

\* a non-negative integer in decimal
RECURSIVE IntToChars(_)
IntToChars(n) ==
    IF n < 10 THEN <<DigitChar(n)>> ELSE IntToChars(n \div 10) \o <<DigitChar(n % 10)>>

DigitChars(d) == [m \in 1..Len(d) |-> DigitChar(d[m])]

Zeros(n) == [m \in 1..n |-> "0"]

\* Number::toString(x) for a finite non-zero x = 0.dig * 10^n (ECMA-262 6.1.6.1.20)
NumberToString(x) ==
    LET k == Len(x.dig)
        n == x.n
        sign == IF x.neg THEN <<"-">> ELSE <<>>
        e == n - 1
        expo == <<"e">> \o (IF e < 0 THEN <<"-">> ELSE <<"+">>)
                    \o IntToChars(IF e < 0 THEN 0 - e ELSE e)
    IN  sign \o
        (IF k <= n /\ n <= 21 THEN DigitChars(x.dig) \o Zeros(n - k)
         ELSE IF 0 < n /\ n <= 21
            THEN DigitChars(SubSeq(x.dig, 1, n)) \o <<".">> \o DigitChars(SubSeq(x.dig, n + 1, k))
         ELSE IF -6 < n /\ n <= 0
            THEN <<"0", ".">> \o Zeros(0 - n) \o DigitChars(x.dig)
         ELSE IF k = 1 THEN DigitChars(x.dig) \o expo
         ELSE <<DigitChar(x.dig[1]), ".">> \o DigitChars(SubSeq(x.dig, 2, k)) \o expo)

\* SerializeJSONProperty for a Number: a non-finite number serializes as null,
\* and -0 as 0
SerializeNumber(x) ==
    IF x.kind = "inf" THEN <<"n", "u", "l", "l">>
    ELSE IF x.kind = "zero" THEN <<"0">>
    ELSE NumberToString(x)

\* QuoteJSONString: the escape of one character
QuoteChar(c) ==
    CASE c = QUOTE -> <<BSL, QUOTE>>
      [] c = BSL -> <<BSL, BSL>>
      [] c = "BS" -> <<BSL, "b">>
      [] c = "\f" -> <<BSL, "f">>
      [] c = NL -> <<BSL, "n">>
      [] c = "\r" -> <<BSL, "r">>
      [] c = "\t" -> <<BSL, "t">>
      [] c = "VT" -> <<BSL, "u", "0", "0", "0", "b">>
      [] c = "NUL" -> <<BSL, "u", "0", "0", "0", "0">>
      [] OTHER -> <<c>>

RECURSIVE QuoteChars(_)
QuoteChars(str) ==
    IF str = <<>> THEN <<>> ELSE QuoteChar(Head(str)) \o QuoteChars(Tail(str))

QuoteJSONString(str) == <<QUOTE>> \o QuoteChars(str) \o <<QUOTE>>

\* the concatenation of the texts in parts, sep between them
RECURSIVE Join(_, _)
Join(parts, sep) ==
    IF parts = <<>> THEN <<>>
    ELSE IF Len(parts) = 1 THEN parts[1]
    ELSE parts[1] \o sep \o Join(Tail(parts), sep)

\* SerializeJSONProperty / SerializeJSONObject / SerializeJSONArray with the
\* gap (the indentation unit, empty for JSON.stringify(v)) and the current
\* indentation
RECURSIVE Serialize(_, _, _)
Serialize(val, gap, indent) ==
    LET stepback == indent
        inner == indent \o gap
        wrap(open, close, parts) ==
            IF parts = <<>> THEN <<open, close>>
            ELSE IF gap = <<>> THEN <<open>> \o Join(parts, <<",">>) \o <<close>>
            ELSE <<open, NL>> \o inner \o Join(parts, <<",", NL>> \o inner)
                     \o <<NL>> \o stepback \o <<close>>
    IN  CASE val.t = "null" -> <<"n", "u", "l", "l">>
          [] val.t = "boolean" ->
                IF val.v = <<"true">> THEN <<"t", "r", "u", "e">>
                ELSE <<"f", "a", "l", "s", "e">>
          [] val.t = "number" -> SerializeNumber(val.v[1])
          [] val.t = "string" -> QuoteJSONString(val.v)
          [] val.t = "array" ->
                wrap("[", "]", [m \in 1..Len(val.v) |-> Serialize(val.v[m], gap, inner)])
          [] val.t = "object" ->
                wrap("{", "}",
                     [m \in 1..Len(val.v) |->
                         QuoteJSONString(val.v[m].k) \o <<":">>
                             \o (IF gap = <<>> THEN <<>> ELSE <<" ">>)
                             \o Serialize(val.v[m].val, gap, inner)])

\* JSON.stringify(value, null, space) for a number of spaces (0 when absent)
JSONstringify(val, space) == Serialize(val, [m \in 1..Min(space, 10) |-> " "], <<>>)

\* ------------------------------------------------------------ the input texts

BlankTexts ==
    { <<>>,    \* (empty)
      <<" ">>,    \*  
      <<NL, " ">>,    \* \n 
      <<"NBSP">> }    \* <NBSP>

ValidTexts ==
    { <<"1">>,    \* 1
      <<"-", "0">>,    \* -0
      <<"1", "e", "9", "9", "9">>,    \* 1e999
      <<"1", ".", "5", "0">>,    \* 1.50
      <<QUOTE, "a", BSL, QUOTE, BSL, BSL, QUOTE>>,    \* "a\\"\\\\"
      <<"t", "r", "u", "e">>,    \* true
      <<"n", "u", "l", "l">>,    \* null
      <<"[", "]">>,    \* []
      <<"{", "}">>,    \* {}
      <<"[", "1", ",", "[", "t", "r", "u", "e", ",", "n", "u", "l", "l", "]", "]">>,    \* [1,[true,null]]
      <<"{", QUOTE, "a", QUOTE, ":", "1", ",", QUOTE, "b", QUOTE, ":", "[", "1", ",", "2", ",", "3", "]", "}">>,    \* {"a":1,"b":[1,2,3]}
      <<"{", QUOTE, "b", QUOTE, ":", "0", ",", QUOTE, "1", QUOTE, ":", "0", "}">>,    \* {"b":0,"1":0}
      <<"{", QUOTE, "a", QUOTE, ":", "1", ",", QUOTE, "a", QUOTE, ":", "2", "}">>,    \* {"a":1,"a":2}
      <<" ", "{", QUOTE, "a", QUOTE, " ", ":", " ", QUOTE, "x", QUOTE, "}", NL>>,    \*  {"a" : "x"}\n
      <<"{", QUOTE, "b", QUOTE, ":", "{", QUOTE, "2", QUOTE, ":", "[", "]", ",", QUOTE, "a", QUOTE, ":", "1", "e", "2", "}", ",", QUOTE, "1", QUOTE, ":", QUOTE, BSL, "n", QUOTE, "}">> }    \* {"b":{"2":[],"a":1e2},"1":"\\n"}

InvalidTexts ==
    { <<"{", QUOTE, "a", QUOTE, ":", "}">>,    \* {"a":}
      <<"{", "a", ":", "'", "b", "'", ",", " ", "c", ":", "1", ",", "}">>,    \* {a:'b', c:1,}
      <<"{", "{", "{">>,    \* {{{
      <<"[", "1", ",">>,    \* [1,
      <<QUOTE, "a">>,    \* "a
      <<"t", "r", "u">>,    \* tru
      <<"0", "1">>,    \* 01
      <<"{", QUOTE, "a", QUOTE, ":", "1", "}", "}">>,    \* {"a":1}}
      <<"a", NL, "{">>,    \* a\n{
      <<"[", "-", "0", "1", "2", ",", "]">>,    \* [-012,]
      <<"[", "-", "0", "1", "2", "]">> }    \* [-012]

Texts == BlankTexts \cup ValidTexts \cup InvalidTexts

\* the contents of the files the user may upload
FileTexts ==
    { <<>>,
      <<"1">>,
      <<"{", QUOTE, "a", QUOTE, ":", "}">> }

FileTypes == {"application/json", "text/plain", ""}

\* ---------------------------------------------- the engine's SyntaxError text
\* The wording of JSON.parse's SyntaxError depends on the JavaScript engine:
\* it names the offset, the offset and the line/column, the line/column only,
\* or no location at all.

Engines == {"position", "position+line", "line", "none"}

\* the pieces of the wordings
UnexpectedToken == <<"U", "n", "e", "x", "p", "e", "c", "t", "e", "d", " ", "t", "o", "k", "e", "n", " ">>    \* Unexpected token 
InJson == <<" ", "i", "n", " ", "J", "S", "O", "N">>    \*  in JSON
UnexpectedEnd == <<"U", "n", "e", "x", "p", "e", "c", "t", "e", "d", " ", "e", "n", "d", " ", "o", "f", " ", "J", "S", "O", "N", " ", "i", "n", "p", "u", "t">>    \* Unexpected end of JSON input
AtPosition == <<"a", "t", " ", "p", "o", "s", "i", "t", "i", "o", "n", " ">>    \* at position 
LineWord == <<"l", "i", "n", "e", " ">>    \* line 
ColumnWord == <<" ", "c", "o", "l", "u", "m", "n", " ">>    \*  column 
FirefoxHead == <<"J", "S", "O", "N", ".", "p", "a", "r", "s", "e", ":", " ", "u", "n", "e", "x", "p", "e", "c", "t", "e", "d", " ", "c", "h", "a", "r", "a", "c", "t", "e", "r", " ", "a", "t", " ">>    \* JSON.parse: unexpected character at 
FirefoxTail == <<" ", "o", "f", " ", "t", "h", "e", " ", "J", "S", "O", "N", " ", "d", "a", "t", "a">>    \*  of the JSON data
SafariHead == <<"J", "S", "O", "N", " ", "P", "a", "r", "s", "e", " ", "e", "r", "r", "o", "r", ":", " ">>    \* JSON Parse error: 

SyntaxErrorMessage(eng, s, pos) ==
    LET lc == RefLineColumn(s, Min(pos, Len(s)))
        what == IF pos < Len(s)
                THEN UnexpectedToken \o <<CharAt(s, pos)>> \o InJson
                ELSE UnexpectedEnd
        lineColumn == LineWord \o IntToChars(lc.line) \o ColumnWord \o IntToChars(lc.column)
    IN  CASE eng = "position" ->
                IF pos < Len(s) THEN what \o <<" ">> \o AtPosition \o IntToChars(pos) ELSE what
          [] eng = "position+line" ->
                what \o <<" ">> \o AtPosition \o IntToChars(pos)
                     \o <<" ", "(">> \o lineColumn \o <<")">>
          [] eng = "line" -> FirefoxHead \o lineColumn \o FirefoxTail
          [] eng = "none" -> SafariHead \o what

\* ------------------------------------------------------------ parseJsonError

\* the literal lit stands in message from the (1-based) index k on
StartsAt(message, k, lit) ==
    /\ k + Len(lit) - 1 <= Len(message)
    /\ SubSeq(message, k, k + Len(lit) - 1) = lit

\* message.match(/at position (\d+)/): the places where the pattern matches
PositionMatches(message) ==
    {k \in 1..Len(message) :
        /\ StartsAt(message, k, AtPosition)
        /\ CharAt(message, k - 1 + Len(AtPosition)) \in Digits}

\* the digits (\d+) takes from the 0-based index k0 on, and the index after them
Capture(message, k0) == ReadDigits(message, k0, <<>>)

\* message.match(/line (\d+) column (\d+)/)
LineColumnMatches(message) ==
    {k \in 1..Len(message) :
        /\ StartsAt(message, k, LineWord)
        /\ Capture(message, k - 1 + Len(LineWord)).d # <<>>
        /\ StartsAt(message, Capture(message, k - 1 + Len(LineWord)).i + 1, ColumnWord)
        /\ CharAt(message, Capture(message, k - 1 + Len(LineWord)).i + Len(ColumnWord))
               \in Digits}

\* String.prototype.match without the g flag reports the leftmost match
MinOf(S) == CHOOSE m \in S : \A n \in S : m <= n

\* parseInt of a run of decimal digits
parseInt(d) == DigitsToInt(d)

\* lineColumnMatch[1] and lineColumnMatch[2] of the match at index k
LineGroup(message, k) == Capture(message, k - 1 + Len(LineWord))
ColumnGroup(message, k) == Capture(message, LineGroup(message, k).i + Len(ColumnWord))

\* (parseJsonError with the two groups of the line/column match swapped)
parseJsonError_swapsGroups(message) ==
    LET positionMatch == PositionMatches(message)
        lineColumnMatch == LineColumnMatches(message)
    IN  [message |-> message,
         line |-> IF lineColumnMatch # {}
                  THEN <<parseInt(ColumnGroup(message, MinOf(lineColumnMatch)).d)>>
                  ELSE <<>>,
         column |-> IF lineColumnMatch # {}
                    THEN <<parseInt(LineGroup(message, MinOf(lineColumnMatch)).d)>> ELSE <<>>,
         position |-> IF positionMatch # {}
                      THEN <<parseInt(Capture(message,
                                 MinOf(positionMatch) - 1 + Len(AtPosition)).d)>>
                      ELSE <<>>]

parseJsonError(message) ==
    LET positionMatch == PositionMatches(message)
        lineColumnMatch == LineColumnMatches(message)
    IN  [message |-> message,
         line |-> IF lineColumnMatch # {}
                  THEN <<parseInt(LineGroup(message, MinOf(lineColumnMatch)).d)>> ELSE <<>>,
         column |-> IF lineColumnMatch # {}
                    THEN <<parseInt(ColumnGroup(message, MinOf(lineColumnMatch)).d)>>
                    ELSE <<>>,
         position |-> IF positionMatch # {}
                      THEN <<parseInt(Capture(message,
                                 MinOf(positionMatch) - 1 + Len(AtPosition)).d)>>
                      ELSE <<>>]

\* ------------------------------------------------- the display of an error

\* ToBoolean of an optional number: undefined and 0 are falsy
Truthy(n) == n # <<>> /\ n[1] # 0

\* (errorLocation with the position tried before the line and column)
errorLocation_positionFirst(value, info) ==
    IF info = <<>> THEN [errorLine |-> <<>>, errorColumn |-> <<>>]
    ELSE IF info[1].position # <<>>
        THEN [errorLine |-> <<getLineColumnFromPosition(value, info[1].position[1]).line>>,
              errorColumn |-> <<getLineColumnFromPosition(value, info[1].position[1]).column>>]
    ELSE IF Truthy(info[1].line) /\ Truthy(info[1].column)
        THEN [errorLine |-> info[1].line, errorColumn |-> info[1].column]
    ELSE [errorLine |-> <<>>, errorColumn |-> <<>>]

\* errorLine / errorColumn of LineNumberTextarea for its props value and
\* errorInfo (<<>> for null)
errorLocation(value, info) ==
    IF info = <<>> THEN [errorLine |-> <<>>, errorColumn |-> <<>>]
    ELSE IF Truthy(info[1].line) /\ Truthy(info[1].column)
        THEN [errorLine |-> info[1].line, errorColumn |-> info[1].column]
    ELSE IF info[1].position # <<>>
        THEN [errorLine |-> <<getLineColumnFromPosition(value, info[1].position[1]).line>>,
              errorColumn |-> <<getLineColumnFromPosition(value, info[1].position[1]).column>>]
    ELSE [errorLine |-> <<>>, errorColumn |-> <<>>]

LineLabel == <<"L", "i", "n", "e", " ">>    \* Line 
ColumnLabel == <<",", " ", "C", "o", "l", "u", "m", "n", " ">>    \* , Column 
PositionLabel == <<"P", "o", "s", "i", "t", "i", "o", "n", " ">>    \* Position 

\* the location row of the error alert under the message: <<its text>>, or
\* <<>> when the row is not rendered
alertLocation(info) ==
    IF Truthy(info.line) \/ info.position # <<>>
    THEN <<(IF Truthy(info.line) THEN LineLabel \o IntToChars(info.line[1]) ELSE <<>>)
           \o (IF Truthy(info.line) /\ Truthy(info.column)
               THEN ColumnLabel \o IntToChars(info.column[1]) ELSE <<>>)
           \o (IF info.position # <<>> /\ ~Truthy(info.line)
               THEN PositionLabel \o IntToChars(info.position[1]) ELSE <<>>)>>
    ELSE <<>>

\* ---- the classifier and the display on their own: a raw message is
\* classified, then shown over a text

\* the raw messages: a head, a position part, a joint, a line part and a tail
MessageHeads ==
    { <<>>,    \* (empty)
      <<"c">>,    \* c
      <<"U", "n", "e", "x", "p", "e", "c", "t", "e", "d", " ", "t", "o", "k", "e", "n", " ", "}", " ", "i", "n", " ", "J", "S", "O", "N", " ">> }    \* Unexpected token } in JSON 

PositionParts ==
    { <<>>,    \* (empty)
      <<"a", "t", " ", "p", "o", "s", "i", "t", "i", "o", "n", " ", "7">>,    \* at position 7
      <<"p", "o", "s", "i", "t", "i", "o", "n", " ", "7">>,    \* position 7
      <<"a", "t", " ", "p", "o", "s", "i", "t", "i", "o", "n", " ", "0", "7">>,    \* at position 07
      <<"a", "t", " ", "p", "o", "s", "i", "t", "i", "o", "n", " ">>,    \* at position 
      <<"a", "t", " ", "p", "o", "s", "i", "t", "i", "o", "n", " ", "1", "2", "x">>,    \* at position 12x
      <<"a", "t", " ", " ", "p", "o", "s", "i", "t", "i", "o", "n", " ", "7">>,    \* at  position 7
      <<"a", "t", " ", "p", "o", "s", "i", "t", "i", "o", "n", " ", "0">> }    \* at position 0

MessageJoints ==
    { <<>>,    \* (empty)
      <<" ">>,    \*  
      <<" ", "(">> }    \*  (

LineParts ==
    { <<>>,    \* (empty)
      <<"l", "i", "n", "e", " ", "2", " ", "c", "o", "l", "u", "m", "n", " ", "3">>,    \* line 2 column 3
      <<"l", "i", "n", "e", " ", "0", " ", "c", "o", "l", "u", "m", "n", " ", "3">>,    \* line 0 column 3
      <<"l", "i", "n", "e", " ", "2", " ", "c", "o", "l", "u", "m", "n", " ", "0">>,    \* line 2 column 0
      <<"l", "i", "n", "e", " ", "2">>,    \* line 2
      <<"l", "i", "n", "e", " ", "2", " ", "c", "o", "l", " ", "3">>,    \* line 2 col 3
      <<"l", "i", "n", "e", " ", "2", " ", " ", "c", "o", "l", "u", "m", "n", " ", "3">>,    \* line 2  column 3
      <<"l", "i", "n", "e", " ", "1", "0", " ", "c", "o", "l", "u", "m", "n", " ", "1">> }    \* line 10 column 1

MessageTails ==
    { <<>>,    \* (empty)
      <<")">>,    \* )
      <<" ", "a", "t", " ", "p", "o", "s", "i", "t", "i", "o", "n", " ", "9">>,    \*  at position 9
      <<" ", "l", "i", "n", "e", " ", "5", " ", "c", "o", "l", "u", "m", "n", " ", "6">> }    \*  line 5 column 6

Messages ==
    {h \o p \o j \o l \o t :
        h \in MessageHeads, p \in PositionParts, j \in MessageJoints,
        l \in LineParts, t \in MessageTails}

\* the texts the error is shown over
DisplayTexts ==
    { <<>>,    \* (empty)
      <<"{", QUOTE, "a", QUOTE, ":", "}">>,    \* {"a":}
      <<"a", NL, "b", "c", NL, "d", NL, NL, NL, NL, NL, NL, NL, NL, "{">> }    \* a\nbc\nd\n\n\n\n\n\n\n\n{

ErrorInit ==
    /\ rawMessage \in Messages
    /\ shownOver \in DisplayTexts
    /\ descriptor = <<>>
    /\ display = <<>>
    /\ ResolveIdle /\ ScanIdle /\ RepairIdle /\ ComponentIdle

\* parseJsonError(new Error(message))
Classify ==
    /\ descriptor = <<>>
    /\ descriptor' = <<parseJsonError(rawMessage)>>
    /\ UNCHANGED <<rawMessage, shownOver, display>>
    /\ UNCHANGED <<resolveVars, scanVars, repairVars, componentVars>>

\* the render of LineNumberTextarea and of the error alert with the descriptor
Render ==
    /\ descriptor # <<>>
    /\ display = <<>>
    /\ display' = <<[location |-> errorLocation(shownOver, descriptor),
                     message |-> descriptor[1].message,
                     alert |-> alertLocation(descriptor[1])]>>
    /\ UNCHANGED <<rawMessage, shownOver, descriptor>>
    /\ UNCHANGED <<resolveVars, scanVars, repairVars, componentVars>>

ErrorNext == Classify \/ Render

SpecError == ErrorInit /\ [][ErrorNext]_vars

\* ---------------------------------------------------------------- the component

\* String.prototype.trim: strips the leading and trailing white space and
\* line terminators
RECURSIVE TrimStart(_)
TrimStart(s) == IF s # <<>> /\ Head(s) \in RegexSpace THEN TrimStart(Tail(s)) ELSE s

RECURSIVE TrimEnd(_)
TrimEnd(s) ==
    IF s # <<>> /\ s[Len(s)] \in RegexSpace THEN TrimEnd(SubSeq(s, 1, Len(s) - 1)) ELSE s

trim(s) == TrimEnd(TrimStart(s))

\* (the catch block without its setFormattedJson(''): the output of the
\* previous text stays)
Validated_keepsOutput(eng, input, r) ==
    IF r.ok
    THEN [isValid |-> "true", errorInfo |-> <<>>,
          formattedJson |-> JSONstringify(r.v, 2), parsed |-> TRUE]
    ELSE [isValid |-> "false",
          errorInfo |-> <<parseJsonError(SyntaxErrorMessage(eng, input, r.next))>>,
          formattedJson |-> formattedJson, parsed |-> TRUE]

\* the try block of validateAndFormat, r being the outcome of JSON.parse(input)
Validated(eng, input, r) ==
    IF r.ok
    THEN [isValid |-> "true", errorInfo |-> <<>>,
          formattedJson |-> JSONstringify(r.v, 2), parsed |-> TRUE]
    ELSE [isValid |-> "false",
          errorInfo |-> <<parseJsonError(SyntaxErrorMessage(eng, input, r.next))>>,
          formattedJson |-> <<>>, parsed |-> TRUE]

\* (validateAndFormat without its blank-input guard)
validateAndFormat_noBlankCheck(eng, input) == Validated(eng, input, JSONparse(input))

\* validateAndFormat(input): the state it sets, and whether it called JSON.parse
validateAndFormat(eng, input) ==
    IF trim(input) = <<>>
    THEN [isValid |-> "null", errorInfo |-> <<>>, formattedJson |-> <<>>, parsed |-> FALSE]
    ELSE Validated(eng, input, JSONparse(input))

SetState(value, r) ==
    /\ jsonInput' = value
    /\ isValid' = r.isValid
    /\ errorInfo' = r.errorInfo
    /\ formattedJson' = r.formattedJson
    /\ lastParse' = IF r.parsed THEN <<value>> ELSE lastParse

\* validateAndFormat over the texts the component is given, evaluated once
\* for each engine and text
Validation == [e \in Engines |-> [t \in Texts |-> validateAndFormat(e, t)]]

\* setJsonInput(value); validateAndFormat(value)
SetInputAndValidate(value) == SetState(value, Validation[engine][value])

\* ---- jsonrepair: the library's outcome for an input.  The library is not
\* part of the repository; the component takes whatever it returns or throws.
JsonrepairOutcomes ==
    {[threw |-> TRUE, out |-> <<>>]} \cup {[threw |-> FALSE, out |-> t] : t \in Texts}

\* (autoFixJson without its catch block)
autoFixJson_rethrows(s, outcome) ==
    IF outcome.threw THEN [threw |-> TRUE, out |-> <<>>]
    ELSE [threw |-> FALSE, out |-> outcome.out]

\* autoFixJson(jsonString) given the outcome of jsonrepair(jsonString)
autoFixJson(s, outcome) ==
    IF outcome.threw THEN [threw |-> FALSE, out |-> s]
    ELSE [threw |-> FALSE, out |-> outcome.out]

\* useState('') / useState(null): the state of JsonFormatter when mounted
Init ==
    /\ jsonInput = <<>>
    /\ formattedJson = <<>>
    /\ isValid = "null"
    /\ errorInfo = <<>>
    /\ readers = <<>>
    /\ toast = "none"
    /\ engine \in Engines
    /\ lastParse = <<>>
    /\ latest = <<>>
    /\ ignored = "none"
    /\ ResolveIdle /\ ScanIdle /\ RepairIdle /\ ErrorIdle

handleInputChange ==
    \E value \in Texts :
        /\ SetInputAndValidate(value)
        /\ latest' = value
        /\ ignored' = "none"
        /\ UNCHANGED <<readers, toast, engine>>
        /\ UNCHANGED <<resolveVars, scanVars, repairVars, errorVars>>

\* event.target.files?.[0]: no file, or a file of some type and content
Files == {<<>>} \cup {<<[type |-> t, content |-> c]>> : t \in FileTypes, c \in FileTexts}

\* (handleFileUpload reading a file of any type)
handleFileUploadOf_anyType(file) ==
    /\ UNCHANGED <<jsonInput, formattedJson, isValid, errorInfo, toast, engine, lastParse>>
    /\ UNCHANGED <<resolveVars, scanVars, repairVars, errorVars>>
    /\ IF file # <<>>
       THEN /\ Len(readers) < MaxReads
            /\ readers' = Append(readers, file[1].content)
            /\ latest' = file[1].content
            /\ ignored' = "none"
       ELSE /\ ignored' = "upload"
            /\ UNCHANGED <<readers, latest>>

\* handleFileUpload for the file of the event: a file of the accepted type
\* starts a FileReader, anything else is dropped
handleFileUploadOf(file) ==
    /\ UNCHANGED <<jsonInput, formattedJson, isValid, errorInfo, toast, engine, lastParse>>
    /\ UNCHANGED <<resolveVars, scanVars, repairVars, errorVars>>
    /\ IF file # <<>> /\ file[1].type = "application/json"
       THEN /\ Len(readers) < MaxReads
            /\ readers' = Append(readers, file[1].content)
            /\ latest' = file[1].content
            /\ ignored' = "none"
       ELSE /\ ignored' = "upload"
            /\ UNCHANGED <<readers, latest>>

handleFileUpload == \E file \in Files : handleFileUploadOf(file)

\* (reader.onload without its validateAndFormat(content))
readerOnload_skipsValidate ==
    \E k \in 1..Len(readers) :
        /\ jsonInput' = readers[k]
        /\ readers' = SubSeq(readers, 1, k - 1) \o SubSeq(readers, k + 1, Len(readers))
        /\ ignored' = "none"
        /\ UNCHANGED <<isValid, errorInfo, formattedJson, lastParse>>
        /\ UNCHANGED <<toast, engine, latest>>
        /\ UNCHANGED <<resolveVars, scanVars, repairVars, errorVars>>

\* reader.onload of one of the reads in flight
readerOnload ==
    \E k \in 1..Len(readers) :
        /\ SetInputAndValidate(readers[k])
        /\ readers' = SubSeq(readers, 1, k - 1) \o SubSeq(readers, k + 1, Len(readers))
        /\ ignored' = "none"
        /\ UNCHANGED <<toast, engine, latest>>
        /\ UNCHANGED <<resolveVars, scanVars, repairVars, errorVars>>

\* the try/catch of tryAutoFix, r being what autoFixJson(jsonInput) did
AutoFixed(r) ==
    IF r.threw
    THEN /\ toast' = "Auto-fix failed"
         /\ UNCHANGED <<jsonInput, formattedJson, isValid, errorInfo, lastParse, latest>>
    ELSE /\ SetInputAndValidate(r.out)
         /\ latest' = r.out
         /\ toast' = "Auto-fix successful!"

tryAutoFix ==
    /\ IF jsonInput # <<>> /\ isValid # "true"
       THEN /\ \E outcome \in JsonrepairOutcomes : AutoFixed(autoFixJson(jsonInput, outcome))
            /\ ignored' = "none"
       ELSE /\ ignored' = "autofix"
            /\ UNCHANGED <<jsonInput, formattedJson, isValid, errorInfo, lastParse, latest,
                           toast>>
    /\ UNCHANGED <<readers, engine>>
    /\ UNCHANGED <<resolveVars, scanVars, repairVars, errorVars>>

\* the try/catch of beautifyJson and minifyJson, r being the outcome of
\* JSON.parse(jsonInput)
Reformatted(space, r) ==
    /\ formattedJson' = IF r.ok THEN JSONstringify(r.v, space) ELSE formattedJson
    /\ lastParse' = <<jsonInput>>

\* (beautifyJson / minifyJson without the guard on isValid and jsonInput)
Reformat_noGuard(handler, space) ==
    /\ UNCHANGED <<jsonInput, isValid, errorInfo, readers, toast, engine, latest>>
    /\ UNCHANGED <<resolveVars, scanVars, repairVars, errorVars>>
    /\ Reformatted(space, JSONparse(jsonInput))
    /\ ignored' = "none"

\* JSON.stringify(JSON.parse(jsonInput), null, space) behind the Beautify
\* (space = 2) and Minify (space = 0) buttons
Reformat(handler, space) ==
    /\ UNCHANGED <<jsonInput, isValid, errorInfo, readers, toast, engine, latest>>
    /\ UNCHANGED <<resolveVars, scanVars, repairVars, errorVars>>
    /\ IF isValid = "true" /\ jsonInput # <<>>
       THEN /\ Reformatted(space, JSONparse(jsonInput))
            /\ ignored' = "none"
       ELSE /\ ignored' = handler
            /\ UNCHANGED <<formattedJson, lastParse>>

beautifyJson == Reformat("beautify", 2)

minifyJson == Reformat("minify", 0)

Next ==
    \/ handleInputChange
    \/ handleFileUpload
    \/ readerOnload
    \/ tryAutoFix
    \/ beautifyJson
    \/ minifyJson

Spec == Init /\ [][Next]_vars

\* ---- autoFixJson on its own: one call with an arbitrary argument
RepairInit ==
    /\ repairInput \in Texts
    /\ repairOutcome = <<>>
    /\ fixed = <<>>
    /\ ResolveIdle /\ ScanIdle /\ ComponentIdle /\ ErrorIdle

AutoFix ==
    /\ fixed = <<>>
    /\ \E outcome \in JsonrepairOutcomes :
          /\ repairOutcome' = <<outcome>>
          /\ fixed' = <<autoFixJson(repairInput, outcome)>>
    /\ UNCHANGED <<repairInput, resolveVars, scanVars, componentVars, errorVars>>

RepairNext == AutoFix

SpecRepair == RepairInit /\ [][RepairNext]_vars

\* ------------------------------------------------------- claims on autoFixJson

\* C1: the text autoFixJson returns is accepted by JSON.parse or is identical
\* to its argument; it never returns a text that differs from the argument
\* and is still invalid JSON.
C1_FailClosedRepair ==
    fixed # <<>> => (JSONparse(fixed[1].out).ok \/ fixed[1].out = repairInput)

\* C2: autoFixJson always returns a string and never throws to its caller;
\* whenever jsonrepair raises an error, autoFixJson returns its argument
\* unchanged.
C2_RepairNeverThrows ==
    fixed # <<>> =>
        /\ ~fixed[1].threw
        /\ repairOutcome[1].threw => fixed[1].out = repairInput

C2_Witness ==
    /\ fixed # <<>>
    /\ repairOutcome[1].threw
    /\ repairInput # <<>>
    /\ fixed[1] = [threw |-> FALSE, out |-> repairInput]

\* ------------------------------------------------------ claims on the formatter

\* deep equality of two JavaScript values: the same type and content, the
\* elements of arrays pairwise, the properties of objects by name; +0 and -0
\* count as equal
RECURSIVE DeepEqual(_, _)
DeepEqual(a, b) ==
    /\ a.t = b.t
    /\ CASE a.t = "number" ->
                \/ a.v[1] = b.v[1]
                \/ a.v[1].kind = "zero" /\ b.v[1].kind = "zero"
         [] a.t = "array" ->
                /\ Len(a.v) = Len(b.v)
                /\ \A m \in 1..Len(a.v) : DeepEqual(a.v[m], b.v[m])
         [] a.t = "object" ->
                /\ Len(a.v) = Len(b.v)
                /\ \A m \in 1..Len(a.v) : \E n \in 1..Len(b.v) :
                        /\ b.v[n].k = a.v[m].k
                        /\ DeepEqual(a.v[m].val, b.v[n].val)
         [] OTHER -> a.v = b.v

\* C5: for every value v obtained by JSON.parse from an input text, parsing
\* the pretty-printed text and the minified text held in formattedJson
\* succeeds and yields a value deep-equal to v.
C5_FormatterRoundTrip ==
    isValid = "true" =>
        /\ JSONparse(jsonInput).ok
        /\ JSONparse(formattedJson).ok
        /\ DeepEqual(JSONparse(formattedJson).v, JSONparse(jsonInput).v)

\* the names of the members of a syntax tree in the order of their insertion:
\* a name is inserted where it first occurs in the text
RECURSIVE InsertionOrder(_, _)
InsertionOrder(members, names) ==
    IF members = <<>> THEN names
    ELSE InsertionOrder(Tail(members),
             IF \E m \in 1..Len(names) : names[m] = Head(members).k
             THEN names ELSE Append(names, Head(members).k))

\* the value a name is bound to after all members are inserted: the last one
LastValue(members, name) ==
    members[CHOOSE m \in 1..Len(members) :
                /\ members[m].k = name
                /\ \A n \in (m + 1)..Len(members) : members[n].k # name].val

\* the shape of a syntax tree: the names of each object in insertion order
\* and the elements of each array in text order, the scalars left out
RECURSIVE Shape(_)
Shape(tree) ==
    IF tree.t = "array"
    THEN [t |-> "array", v |-> [m \in 1..Len(tree.v) |-> Shape(tree.v[m])]]
    ELSE IF tree.t = "object"
    THEN [t |-> "object",
          v |-> LET names == InsertionOrder(tree.v, <<>>)
                IN  [m \in 1..Len(names) |->
                        [k |-> names[m], val |-> Shape(LastValue(tree.v, names[m]))]]]
    ELSE [t |-> "scalar", v |-> <<>>]

\* C6: the pretty-printed and the minified output list the keys of each
\* object in the order in which they were inserted when the input was parsed
\* (their order in the input text), and the elements of each array in input
\* order.
C6_OrderPreserved ==
    (isValid = "true" /\ ParseText(jsonInput).ok /\ ParseText(formattedJson).ok) =>
        Shape(ParseText(formattedJson).v) = Shape(ParseText(jsonInput).v)

\* ------------------------------------------------------ claims on the component

\* C7: a call of validateAndFormat with an empty or whitespace-only text sets
\* isValid = null, errorInfo = null and formattedJson = '' without calling
\* JSON.parse, and no operation ever calls JSON.parse on an empty or
\* whitespace-only text.
C7_BlankInputNeutral ==
    /\ [](lastParse # <<>> => trim(lastParse[1]) # <<>>)
    /\ [](trim(jsonInput) = <<>> =>
            (isValid = "null" /\ errorInfo = <<>> /\ formattedJson = <<>>))
    /\ [][trim(jsonInput') = <<>> =>
            (/\ isValid' = "null" /\ errorInfo' = <<>> /\ formattedJson' = <<>>
             /\ lastParse' = lastParse)]_vars

C7_Witness ==
    /\ jsonInput # <<>>
    /\ trim(jsonInput) = <<>>
    /\ isValid = "null"
    /\ lastParse # <<>>

\* C8: in every reachable state exactly one result variant is populated:
\* isValid = true implies errorInfo = null and a non-empty formattedJson;
\* isValid = false implies an errorInfo with a message and formattedJson = '';
\* isValid = null implies errorInfo = null and formattedJson = ''.
C8_OneVariantPopulated ==
    /\ isValid \in {"true", "false", "null"}
    /\ isValid = "true" => (errorInfo = <<>> /\ formattedJson # <<>>)
    /\ isValid = "false" =>
          (errorInfo # <<>> /\ errorInfo[1].message # <<>> /\ formattedJson = <<>>)
    /\ isValid = "null" => (errorInfo = <<>> /\ formattedJson = <<>>)

C8_Witness ==
    /\ isValid = "false"
    /\ errorInfo # <<>>
    /\ formattedJson = <<>>
    /\ toast = "Auto-fix successful!"

\* ------------------------------------------- claims on the error classifier

\* the characters of lit are those of m from the (1-based) index k on
HasAt(m, k, lit) == \A j \in 1..Len(lit) : k + j - 1 <= Len(m) /\ m[k + j - 1] = lit[j]

IsDigitAt(m, k) == k >= 1 /\ k <= Len(m) /\ m[k] \in Digits

\* the last index of the longest run of digits of m that starts at index k
RunEnd(m, k) ==
    CHOOSE e \in k..Len(m) :
        /\ \A j \in k..e : m[j] \in Digits
        /\ e = Len(m) \/ m[e + 1] \notin Digits

\* the number the digits m[k..e] denote in decimal
RECURSIVE DecimalValue(_, _, _)
DecimalValue(m, k, e) ==
    IF e < k THEN 0 ELSE 10 * DecimalValue(m, k, e - 1) + DigitValue(m[e])

NumberAt(m, k) == DecimalValue(m, k, RunEnd(m, k))

PositionWord == <<"p", "o", "s", "i", "t", "i", "o", "n", " ">>

\* the places of m where "<word>N" stands, N a decimal number
NumberAfter(m, word) == {k \in 1..Len(m) : HasAt(m, k, word) /\ IsDigitAt(m, k + Len(word))}

\* the places of m where "line N column M" stands
LineColumnAt(m) ==
    {k \in NumberAfter(m, LineWord) :
        /\ HasAt(m, RunEnd(m, k + Len(LineWord)) + 1, ColumnWord)
        /\ IsDigitAt(m, RunEnd(m, k + Len(LineWord)) + 1 + Len(ColumnWord))}

Leftmost(S) == CHOOSE k \in S : \A n \in S : k <= n

\* message is verbatim, and line and column are those of the leftmost
\* "line N column M", both absent without one
VerbatimAndLineColumn(m, d) ==
    /\ d.message = m
    /\ (d.line = <<>>) <=> (d.column = <<>>)
    /\ LineColumnAt(m) = {} => (d.line = <<>> /\ d.column = <<>>)
    /\ LineColumnAt(m) # {} =>
          /\ d.line = <<NumberAt(m, Leftmost(LineColumnAt(m)) + Len(LineWord))>>
          /\ d.column =
                <<NumberAt(m, RunEnd(m, Leftmost(LineColumnAt(m)) + Len(LineWord))
                                  + 1 + Len(ColumnWord))>>

\* position is the N of the leftmost "<word>N" of m, absent without one
PositionFrom(m, d, word) ==
    /\ NumberAfter(m, word) = {} => d.position = <<>>
    /\ NumberAfter(m, word) # {} =>
          d.position = <<NumberAt(m, Leftmost(NumberAfter(m, word)) + Len(word))>>

\* C11 (as stated): parseJsonError returns the message verbatim, position = N
\* whenever the message contains "position N" and absent otherwise, line and
\* column = (N, M) whenever it contains "line N column M" and both absent
\* otherwise.
C11_ClassifierPositionN ==
    descriptor # <<>> =>
        /\ VerbatimAndLineColumn(rawMessage, descriptor[1])
        /\ PositionFrom(rawMessage, descriptor[1], PositionWord)

\* C11 (amended): as above, with position = N whenever the message contains
\* "at position N" (the leftmost one), and absent otherwise, also when a
\* "position N" without the "at " before it stands in the message.
C11_ClassifierAtPositionN ==
    descriptor # <<>> =>
        /\ VerbatimAndLineColumn(rawMessage, descriptor[1])
        /\ PositionFrom(rawMessage, descriptor[1], AtPosition)

C11_Witness ==
    /\ descriptor # <<>>
    /\ descriptor[1].position = <<7>>
    /\ descriptor[1].line = <<2>>
    /\ descriptor[1].column = <<3>>
    /\ Cardinality(NumberAfter(rawMessage, AtPosition)) = 2

\* ---------------------------------------------- claims on the error display

\* what is shown for a descriptor d over the text t when the line and column
\* are absent: the place of the position if there is one, else the message alone
ShownWithoutLineColumn(t, d, sh) ==
    /\ sh.message = d.message
    /\ (d.line = <<>> /\ d.column = <<>> /\ d.position # <<>>) =>
          /\ sh.location.errorLine =
                <<RefLineColumn(t, Min(d.position[1], Len(t))).line>>
          /\ sh.location.errorColumn =
                <<RefLineColumn(t, Min(d.position[1], Len(t))).column>>
          /\ sh.alert = <<PositionLabel \o IntToChars(d.position[1])>>
    /\ (d.line = <<>> /\ d.column = <<>> /\ d.position = <<>>) =>
          /\ sh.location = [errorLine |-> <<>>, errorColumn |-> <<>>]
          /\ sh.alert = <<>>

\* the line and column of d are what is shown
ShownLineColumn(d, sh) ==
    /\ sh.location = [errorLine |-> d.line, errorColumn |-> d.column]
    /\ sh.alert = <<LineLabel \o IntToChars(d.line[1])
                        \o ColumnLabel \o IntToChars(d.column[1])>>

\* C12 (as stated): for every descriptor with line and column both present,
\* whatever their values and whether or not a position is present, the line
\* and column shown are the descriptor's; the position is used only when line
\* and column are absent, and the message alone is shown when all are absent.
C12_LineColumnPrecedence ==
    display # <<>> =>
        /\ ShownWithoutLineColumn(shownOver, descriptor[1], display[1])
        /\ (descriptor[1].line # <<>> /\ descriptor[1].column # <<>>) =>
              ShownLineColumn(descriptor[1], display[1])

\* C12 (amended): as above for every descriptor whose line and column are
\* both present and both non-zero.
C12_NonZeroLineColumnPrecedence ==
    display # <<>> =>
        /\ ShownWithoutLineColumn(shownOver, descriptor[1], display[1])
        /\ (Truthy(descriptor[1].line) /\ Truthy(descriptor[1].column)) =>
              ShownLineColumn(descriptor[1], display[1])

C12_Witness ==
    /\ display # <<>>
    /\ descriptor[1].position = <<7>>
    /\ descriptor[1].line = <<2>>
    /\ display[1].location = [errorLine |-> <<2>>, errorColumn |-> <<3>>]
    /\ getLineColumnFromPosition(shownOver, 7).line # 2

\* -------------------------------------------- claims on the component's flow

\* C14: in every state reached by edits, file-read completions and
\* auto-fixes, in any order, isValid, errorInfo and the emptiness of
\* formattedJson are exactly what validateAndFormat computes for the current
\* jsonInput: nothing computed from an earlier text survives a change of input.
C14_ResultMatchesInput ==
    /\ isValid = validateAndFormat(engine, jsonInput).isValid
    /\ errorInfo = validateAndFormat(engine, jsonInput).errorInfo
    /\ (formattedJson = <<>>) <=> (validateAndFormat(engine, jsonInput).formattedJson = <<>>)

C14_Witness ==
    /\ isValid = "false"
    /\ toast = "Auto-fix successful!"
    /\ readers = <<>>
    /\ jsonInput # latest

\* C15: once no file read is in flight, the input shown is that of the user
\* action initiated last: a read started earlier and completed later does not
\* replace the text entered, or the file chosen, after it was started.
C15_LastCallWins == readers = <<>> => jsonInput = latest

\* a file the handler does not read: none, or one of another type
Unsupported(file) == file = <<>> \/ file[1].type # "application/json"

\* C16: when handleFileUpload receives no file or a file whose type is not
\* 'application/json', no read is started, neither JSON.parse nor the repair is
\* called, and jsonInput, isValid, errorInfo and formattedJson keep their
\* values; with no read in flight from it, nothing follows from the event later.
C16_UnsupportedUploadNoOp ==
    [][\A file \in Files :
          (Unsupported(file) /\ handleFileUploadOf(file)) =>
              UNCHANGED <<jsonInput, isValid, errorInfo, formattedJson,
                          readers, lastParse, toast, latest>>]_vars

C16_Witness ==
    /\ ignored = "upload"
    /\ isValid = "false"
    /\ readers # <<>>

\* C17: beautifyJson and minifyJson change state only when isValid = true and
\* the input is non-empty; then they replace formattedJson only, leaving
\* jsonInput, isValid and errorInfo; otherwise they change nothing and do not
\* parse.
C17_FormatterOnlyOnValid ==
    [][(beautifyJson \/ minifyJson) =>
          /\ UNCHANGED <<jsonInput, isValid, errorInfo, readers, toast, latest>>
          /\ ~(isValid = "true" /\ jsonInput # <<>>) => UNCHANGED <<formattedJson, lastParse>>
          /\ (isValid = "true" /\ jsonInput # <<>>) => formattedJson' # <<>>]_vars

C17_Witness ==
    /\ ignored \in {"beautify", "minify"}
    /\ isValid = "false"
    /\ errorInfo # <<>>
    /\ formattedJson = <<>>

\* ---- the scanner against its rules, stated without the loops of the code

\* the backslashes that directly precede index q and lie after index p
RefBackslashes(s, p, q) ==
    Cardinality({m \in (p + 1)..(q - 1) : \A n \in m..(q - 1) : CharAt(s, n) = BSL})

\* the quotes that can close a string opened at index p
RefClosers(s, p) ==
    {q \in (p + 1)..(Len(s) - 1) :
        CharAt(s, q) = QUOTE /\ RefBackslashes(s, p, q) % 2 = 0}

\* the length of the string token opened at index p
RefStringLength(s, p) ==
    IF RefClosers(s, p) = {} THEN Len(s) - p ELSE MinOf(RefClosers(s, p)) - p + 1

\* whether the first non-whitespace character from index j on is a colon
RefColonNext(s, j) ==
    \E m \in j..(Len(s) - 1) :
        /\ CharAt(s, m) = ":"
        /\ \A n \in j..(m - 1) : CharAt(s, n) \in RegexSpace

\* the length of the longest run of number characters from index p on
RefNumberLength(s, p) ==
    MinOf({m \in p..Len(s) : CharAt(s, m) \notin NumberChar}) - p

RefLiterals ==
    << [text |-> <<"t", "r", "u", "e">>, type |-> "boolean"],
       [text |-> <<"f", "a", "l", "s", "e">>, type |-> "boolean"],
       [text |-> <<"n", "u", "l", "l">>, type |-> "null"] >>

RefLiteralAt(s, p, l) ==
    SubSeq(s, p + 1, Min(p + Len(RefLiterals[l].text), Len(s))) = RefLiterals[l].text

\* the rules in their order: 1 whitespace, 2 string, 3 number, 4..6 the
\* literals, 7 punctuation, 8 anything else
RefMatches(s, p, rule) ==
    CASE rule = 1 -> CharAt(s, p) \in RegexSpace
      [] rule = 2 -> CharAt(s, p) = QUOTE
      [] rule = 3 -> CharAt(s, p) \in {"-"} \cup Digits
      [] rule \in 4..6 -> RefLiteralAt(s, p, rule - 3)
      [] rule = 7 -> CharAt(s, p) \in {"{", "}", "[", "]", ",", ":"}
      [] rule = 8 -> TRUE

RefRule(s, p) == MinOf({rule \in 1..8 : RefMatches(s, p, rule)})

RefLength(s, p, rule) ==
    CASE rule = 2 -> RefStringLength(s, p)
      [] rule = 3 -> RefNumberLength(s, p)
      [] rule \in 4..6 -> Len(RefLiterals[rule - 3].text)
      [] OTHER -> 1

RefType(s, p, rule) ==
    CASE rule = 1 -> "whitespace"
      [] rule = 2 -> IF RefColonNext(s, p + RefStringLength(s, p)) THEN "key" ELSE "string"
      [] rule = 3 -> "number"
      [] rule \in 4..6 -> RefLiterals[rule - 3].type
      [] rule = 7 -> "punctuation"
      [] rule = 8 -> "default"

RefToken(s, p, rule) ==
    [type |-> RefType(s, p, rule),
     value |-> SubSeq(s, p + 1, p + RefLength(s, p, rule))]

\* the token sequence of the reference scanner from index p on
RECURSIVE RefScanFrom(_, _)
RefScanFrom(s, p) ==
    IF p >= Len(s) THEN <<>>
    ELSE <<RefToken(s, p, RefRule(s, p))>>
             \o RefScanFrom(s, p + RefLength(s, p, RefRule(s, p)))

RefScan(s) == RefScanFrom(s, 0)

\* C18: the token sequence of highlightJson equals that of the reference
\* scanner applying, at each position, the first matching rule of: whitespace;
\* string (Key if the next non-whitespace character after it is ':', by a peek
\* that consumes nothing); number; true/false/null; punctuation; otherwise a
\* one-character Other token. During the scan the tokens are a prefix of it.
C18_RulePriority ==
    /\ Len(tokens) <= Len(RefScan(jsonString))
    /\ tokens = SubSeq(RefScan(jsonString), 1, Len(tokens))
    /\ ScanDone => tokens = RefScan(jsonString)

\* a key separated from its colon by whitespace, which is scanned on its own
C18_Witness ==
    /\ ScanDone
    /\ jsonString = <<"{", QUOTE, "a", QUOTE, " ", NL, ":", " ", "1", "}">>
    /\ Len(tokens) = 8
    /\ tokens[2] = [type |-> "key", value |-> <<QUOTE, "a", QUOTE>>]
    /\ tokens[3] = [type |-> "whitespace", value |-> <<" ">>]
    /\ tokens[5] = [type |-> "punctuation", value |-> <<":">>]

\* the index at which token n of a token list starts
RECURSIVE TokenStart(_, _)
TokenStart(toks, n) ==
    IF n = 1 THEN 0 ELSE TokenStart(toks, n - 1) + Len(toks[n - 1].value)

\* C19: a string token opened by a quote ends at the first following quote
\* preceded by an even number of consecutive backslashes; if there is none it
\* extends to the end of the input, is classified 'string' (never 'key') and
\* is the last token.
C19_StringBoundaries ==
    \A n \in 1..Len(tokens) :
        tokens[n].value[1] = QUOTE =>
            LET p == TokenStart(tokens, n)
                end == p + Len(tokens[n].value)
            IN  /\ tokens[n].type \in {"key", "string"}
                /\ IF RefClosers(jsonString, p) # {}
                   THEN end = MinOf(RefClosers(jsonString, p)) + 1
                   ELSE /\ end = Len(jsonString)
                        /\ tokens[n].type = "string"
                        /\ n = Len(tokens)
                        /\ ScanDone

\* an escaped backslash, an escaped quote and an unterminated string
C19_Witness ==
    /\ ScanDone
    /\ jsonString = <<QUOTE, BSL, BSL, BSL, QUOTE, QUOTE, ":", QUOTE, BSL, QUOTE>>
    /\ Len(tokens) = 3
    /\ tokens[1] = [type |-> "key", value |-> <<QUOTE, BSL, BSL, BSL, QUOTE, QUOTE>>]
    /\ tokens[3] = [type |-> "string", value |-> <<QUOTE, BSL, QUOTE>>]

\* C20: tryAutoFix on an invalid input announces 'Auto-fix successful!' only
\* when the input after the fix is valid; otherwise the input is left as it
\* was, the syntax error stays displayed and 'Auto-fix failed' is raised.
C20_AutoFixReporting ==
    [][(tryAutoFix /\ isValid = "false") =>
          IF isValid' = "true"
          THEN toast' = "Auto-fix successful!"
          ELSE /\ toast' = "Auto-fix failed"
               /\ jsonInput' = jsonInput
               /\ isValid' = "false"
               /\ errorInfo' = errorInfo]_vars

====
